---- MODULE Spec2Model ----
(***************************************************************************)
(* Model of the personal finance visualizer: the transaction store         *)
(* (src/lib/transactionContext.js), the budget store (src/unnamed/part_003,*)
(* lib/budgetContext) and the aggregation functions of lib/utils           *)
(* (src/unnamed/part_004).                                                 *)
(*                                                                         *)
(* Both stores are React providers.  A provider's state is the value of    *)
(* its useState hooks as of the last render (the "committed" state, which  *)
(* is what the context value and every closure created by that render      *)
(* see), together with the queue of state updates that were requested      *)
(* since and that the next render applies in order.  A functional update   *)
(* setX(prev => ...) runs when the render applies it, or at once when the  *)
(* provider has no pending update and React evaluates it eagerly.          *)
(*                                                                         *)
(* A JavaScript object is a function from the names of its own fields; a   *)
(* field the object lacks is outside the function's domain.  An array is a *)
(* sequence (index i of the source is index i+1 here, and the -1 of        *)
(* findIndex is 0).  A timestamp is the clock value it was taken at:       *)
(* toISOString is monotone in the clock, so timestamps compare as the      *)
(* clock values do.                                                        *)
(***************************************************************************)
EXTENDS Integers, Sequences, FiniteSets, TLC

\* Bounds of the model.
MaxCalls == 2       \* calls of the stores' mutation API in one behaviour
MaxTime == 2        \* the clock (Date.now()) runs over 0..MaxTime
MaxRand == 2        \* Math.random() suffixes of an id are 0..MaxRand-1

VARIABLES
    now,            \* Date.now()
    quota,          \* how many entries localStorage holds before setItem throws
    phase,          \* "constructed": first render done, its effects not yet run;
                    \* "mounted"; "crashed": a render threw and the tree is gone
    \* transaction store
    transactions,   \* useState(initialTransactions), as committed
    tIsLoading,     \* useState(true), as committed
    tError,         \* useState(null), as committed
    tQueue,         \* pending setTransactions updates, oldest first
    tPending,       \* pending setIsLoading / setError values
    tStorage,       \* localStorage[STORAGE_KEY]
    tCalls,         \* the promises returned so far, with their outcome
    tWrites,        \* number of localStorage.setItem calls made
    tFirstWrite,    \* payload of the first setItem call
    tInitial,       \* localStorage[STORAGE_KEY] at construction
    tRef,           \* the reference list of the loaded store
    \* budget store
    budgets,        \* useState(initialBudgets), as committed
    bIsLoading,     \* useState(true), as committed
    bError,         \* useState(null), as committed
    bQueue,         \* pending setBudgets updates, oldest first
    bPending,       \* pending setIsLoading / setError values
    bStorage,       \* localStorage[BUDGET_STORAGE_KEY]
    bCalls,         \* the promises returned so far, with their outcome
    bWrites,        \* number of localStorage.setItem calls made
    bFirstWrite,    \* payload of the first setItem call
    bInitial,       \* localStorage[BUDGET_STORAGE_KEY] at construction
    \* a call of the aggregation functions of lib/utils
    aTransactions,  \* the transactions argument
    aBudgets,       \* the budgets argument
    aMonth,         \* the monthYear argument
    aOffset,        \* the host's time zone: hours its local time is ahead of UTC
    aComparison,    \* what compareBudgetWithActual returned
    aGrouped,       \* what groupTransactionsByMonth returned
    aMonthly,       \* what getTransactionsForMonth returned
    aPc,            \* "idle": no call followed; "input": not called yet;
                    \* then the function that was called
    \* calls of generateInsights of lib/utils on one array
    iGiven,         \* the rows of the budgetComparison array when it was passed
    iArray,         \* the rows of the array now
    iFirst,         \* what the first call returned
    iSecond,        \* what the second call, on the same array, returned
    iPc,            \* "idle": no call followed; "input"; "once"; "twice"
    iDashboard,     \* the budgetInsights of the dashboard for the same rows
    \* the page rendered inside the providers
    page,           \* the page component that is mounted, if one is followed
    tTimer,         \* whether the page's setTimeout(clearError) of the
                    \* transaction store is pending
    bTimer,         \* the same for the budget store
    editing,        \* Home's editingTransaction
    awaited,        \* the call that a submitted form is awaiting, or 0
    feedback        \* TransactionForm's feedback.type

tvars == <<transactions, tIsLoading, tError, tQueue, tPending,
           tStorage, tCalls, tWrites, tFirstWrite, tInitial, tRef>>
bvars == <<budgets, bIsLoading, bError, bQueue, bPending,
           bStorage, bCalls, bWrites, bFirstWrite, bInitial>>
avars == <<aTransactions, aBudgets, aMonth, aOffset, aComparison,
           aGrouped, aMonthly, aPc>>
ivars == <<iGiven, iArray, iFirst, iSecond, iPc, iDashboard>>
pvars == <<page, tTimer, bTimer, editing, awaited, feedback>>
vars == <<now, quota, phase, tvars, bvars, avars, ivars, pvars>>

----------------------------------------------------------------------------
\* JavaScript values

Has(o, f) == f \in DOMAIN o

\* { ...a, ...b }
Spread(a, b) ==
    [f \in (DOMAIN a) \cup (DOMAIN b) |-> IF f \in DOMAIN b THEN b[f] ELSE a[f]]

\* {} , and what spreading undefined contributes
EmptyObject == [f \in {} |-> 0]

\* null
Null == [null |-> TRUE]

\* an index of an array that was never assigned
Hole == [hole |-> TRUE]

IsObject(v) == v # Null /\ v # Hole

Min(S) == CHOOSE x \in S : \A y \in S : x <= y

\* array.findIndex(p), with 0 for the source's -1
FindIndex(list, P(_)) ==
    LET S == {i \in 1..Len(list) : P(list[i])}
    IN  IF S = {} THEN 0 ELSE Min(S)

\* array.filter(p)
Filter(list, P(_)) == SelectSeq(list, P)

\* outcomes of a promise
Pending == [st |-> "pending"]
Resolved(v) == [st |-> "resolved", val |-> v]
Rejected(e) == [st |-> "rejected", err |-> e]

\* pending values of a useState setter that is always given a plain value
NoUpdate == "none"

----------------------------------------------------------------------------
\* Persistence: localStorage.getItem / JSON.parse / JSON.stringify

\* getItem returns null for a key that was never written
Missing == [kind |-> "missing"]
\* a stored text that JSON.parse rejects
Corrupt == [kind |-> "text"]
\* the empty text, which `if (storedTransactions)` takes as no value
Empty == [kind |-> "empty"]

\* the values of JSON texts that are no arrays: null, 0, "" and {"a": 1}.
\* An array is a function on 1..n; these are functions on {0}.
NonArrays == {[i \in {0} |-> k] : k \in {"null", "number", "string", "object"}}

\* Array.isArray(v)
IsArray(v) == DOMAIN v = 1..Cardinality(DOMAIN v)

\* JSON.stringify(value): the text of an array, where a hole is written as
\* null, or the text of another value
Stringify(list) ==
    IF IsArray(list)
    THEN [kind |-> "json",
          val |-> [i \in 1..Len(list) |-> IF list[i] = Hole THEN Null ELSE list[i]]]
    ELSE [kind |-> "value", value |-> list]

\* JSON.parse(text): throws on a text that is no JSON
Parse(text) ==
    IF text.kind = "json" THEN [ok |-> TRUE, val |-> text.val]
    ELSE IF text.kind = "value" THEN [ok |-> TRUE, val |-> text.value]
    ELSE [ok |-> FALSE]

\* the size of a stored text, in entries
Size(text) ==
    CASE text.kind = "json" -> Len(text.val)
      [] text.kind = "value" -> 1
      [] text.kind = "text" -> 1
      [] OTHER -> 0

\* localStorage.setItem(key, text) throws (QuotaExceededError) when the
\* storage, which holds the other key's text as well, would be over quota
SetItemAccepted(text, other) == Size(text) + Size(other) <= quota

\* the quota of the host: one that the stored data already fills, or none
\* that the application comes near
Quotas == {4, 100}

LoadError == "load"
SaveError == "save"
NoError == "null"

\* a save effect whose catch block does not call setError
CaughtErrorDropped(sv, otherwise) == otherwise

\* the catch block of the save effect: the setError that is pending after
\* the effect ran, given the one pending before it
CaughtError(sv, otherwise) == IF sv.failed THEN SaveError ELSE otherwise

----------------------------------------------------------------------------
\* Transaction store: inputs

TxnId(t, r) == <<"txn", t, r>>

\* the transactions a previous session left in storage
StoredT1 == [id |-> TxnId(0, 0), amount |-> 4, date |-> <<1, 1>>,
             category |-> "Food", createdAt |-> 0, updatedAt |-> 0]
StoredT2 == [id |-> TxnId(0, 1), amount |-> -3, date |-> <<1, 2>>,
             category |-> "Rent", createdAt |-> 0, updatedAt |-> 0]

TxnStorages == {Missing, Corrupt, Stringify(<<StoredT1, StoredT2>>)}

\* drafts passed to addTransaction; the second one carries an id of its own
Drafts == {[amount |-> 2, date |-> <<1, 1>>, category |-> "Food"],
           [amount |-> -1, date |-> <<1, 2>>, category |-> "Rent",
            id |-> TxnId(0, 0)]}

\* patches passed to updateTransaction
Patches == {[amount |-> -5],
            [amount |-> 1, category |-> "Fun"],
            [id |-> TxnId(0, 1)]}

UnknownId == TxnId(0, 9)

----------------------------------------------------------------------------
\* Budget store: inputs

BudgetId(t, r) == <<"bgt", t, r>>

\* the budgets a previous session left in storage
StoredB1 == [id |-> BudgetId(0, 0), month |-> 1, category |-> "Rent",
             amount |-> 7, createdAt |-> 0, updatedAt |-> 0]
StoredB2 == [id |-> BudgetId(0, 1), month |-> 1, category |-> "Food",
             amount |-> 5, createdAt |-> 0, updatedAt |-> 0]

StoredB3 == [id |-> BudgetId(0, 2), month |-> 1, category |-> "Fun",
             amount |-> 4, createdAt |-> 0, updatedAt |-> 0]

BudgetStorages == {Missing, Corrupt, Stringify(<<StoredB1, StoredB2>>)}

\* the storage of a session that is followed for more calls of the budget
\* store alone
ThreeBudgets == Stringify(<<StoredB1, StoredB2, StoredB3>>)

MaxBudgetCalls == 4 \* calls followed in a session that starts from ThreeBudgets

\* the number of calls a session is followed for
CallLimit == IF bInitial = ThreeBudgets THEN MaxBudgetCalls ELSE MaxCalls

\* the budgets passed to addOrUpdateBudget
BudgetArgs == [month : {1}, category : {"Food", "Fun"}, amount : {5, 6}]

UnknownBudgetId == BudgetId(0, 9)

----------------------------------------------------------------------------
\* Transaction store: the functional updates of setTransactions

HasId(o, id) == IsObject(o) /\ Has(o, "id") /\ o.id = id

\* addTransaction, lines 94-100: the new transaction
NewTransaction(transaction, timestamp, r) ==
    Spread(transaction, [id |-> TxnId(timestamp, r),
                         createdAt |-> timestamp, updatedAt |-> timestamp])

\* a store that adds at the end of the list
AddUpdaterAtEnd(prev, newTransaction) == prev \o <<newTransaction>>

\* addTransaction, lines 102-105
AddUpdater(prev, newTransaction) == <<newTransaction>> \o prev

\* updateTransaction, lines 119-142: the next list, whether it is prev itself,
\* and how the promise is settled
UpdateUpdater(prev, id, updatedData, timestamp) ==
    LET existing == FindIndex(prev, LAMBDA t : HasId(t, id))
        updatedTransactions ==
            [i \in 1..Len(prev) |->
                IF HasId(prev[i], id)
                THEN Spread(Spread(prev[i], updatedData), [updatedAt |-> timestamp])
                ELSE prev[i]]
        found == FindIndex(updatedTransactions, LAMBDA t : HasId(t, id))
    IN  IF existing = 0
        THEN [list |-> prev, same |-> TRUE, res |-> Rejected("not found")]
        ELSE [list |-> updatedTransactions, same |-> FALSE,
              res |-> Resolved(IF found = 0 THEN Null
                               ELSE updatedTransactions[found])]

\* deleteTransaction, lines 153-165
DeleteUpdater(prev, id) ==
    LET existingIndex == FindIndex(prev, LAMBDA t : HasId(t, id))
    IN  IF existingIndex = 0
        THEN [list |-> prev, same |-> TRUE, res |-> Resolved(FALSE)]
        ELSE [list |-> Filter(prev, LAMBDA t : ~HasId(t, id)), same |-> FALSE,
              res |-> Resolved(TRUE)]

\* The record of a call whose functional update has run: how the promise
\* was settled and when, and the list the update was given and returned.
Settled(call, res, clock, prev, next) ==
    [call EXCEPT !.res = res, !.at = clock,
                 !.present = \E i \in 1..Len(prev) : HasId(prev[i], call.id),
                 !.unchanged = (next = prev),
                 !.remains = \E i \in 1..Len(next) : HasId(next[i], call.id)]

\* the record of a call whose functional update has not run yet; loading is
\* the isLoading of the context value the call was made through
NewCall(op, id, clock, loading) ==
    [op |-> op, id |-> id, res |-> Pending, at |-> clock, loading |-> loading,
     present |-> FALSE, unchanged |-> TRUE, remains |-> FALSE]

\* One queued update applied to the state being rendered.  st.same tells
\* whether the array is still the very array of the last render.
ApplyTxnUpdate(u, st, clock) ==
    CASE u.kind = "set" ->
            [st EXCEPT !.list = u.list, !.same = FALSE]
      [] u.kind = "add" ->
            [st EXCEPT !.list = AddUpdater(st.list, u.txn), !.same = FALSE]
      [] u.kind = "update" ->
            LET r == UpdateUpdater(st.list, u.id, u.patch, clock)
            IN  [list |-> r.list, same |-> st.same /\ r.same,
                 calls |-> [st.calls EXCEPT ![u.call] =
                               Settled(@, r.res, clock, st.list, r.list)]]
      [] u.kind = "delete" ->
            LET r == DeleteUpdater(st.list, u.id)
            IN  [list |-> r.list, same |-> st.same /\ r.same,
                 calls |-> [st.calls EXCEPT ![u.call] =
                               Settled(@, r.res, clock, st.list, r.list)]]

\* The render applies the queue in order.
RECURSIVE RunTxnQueue(_, _, _)
RunTxnQueue(q, st, clock) ==
    IF q = <<>> THEN st
    ELSE RunTxnQueue(Tail(q), ApplyTxnUpdate(Head(q), st, clock), clock)

\* getStats, lines 173-190
Abs(x) == IF x < 0 THEN -x ELSE x

\* list.reduce((sum, t) => sum + t.amount, 0)
RECURSIVE SumAmounts(_)
SumAmounts(list) ==
    IF list = <<>> THEN 0 ELSE SumAmounts(Tail(list)) + Head(list).amount

\* list.reduce((sum, t) => sum + Math.abs(t.amount), 0)
RECURSIVE SumAbsAmounts(_)
SumAbsAmounts(list) ==
    IF list = <<>> THEN 0 ELSE SumAbsAmounts(Tail(list)) + Abs(Head(list).amount)

\* statistics that leave out Math.abs
GetStatsSigned(list) ==
    LET income == SumAmounts(Filter(list, LAMBDA t : t.amount > 0))
        expenses == SumAmounts(Filter(list, LAMBDA t : t.amount < 0))
    IN  [totalTransactions |-> Len(list),
         income |-> income,
         expenses |-> expenses,
         balance |-> income - expenses]

GetStats(list) ==
    LET income == SumAmounts(Filter(list, LAMBDA t : t.amount > 0))
        expenses == SumAbsAmounts(Filter(list, LAMBDA t : t.amount < 0))
    IN  [totalTransactions |-> Len(list),
         income |-> income,
         expenses |-> expenses,
         balance |-> income - expenses]

----------------------------------------------------------------------------
\* The reference list of the transaction store: the operations applied at
\* once, one entry at a time.

RECURSIVE RefUpdate(_, _, _)
RefUpdate(list, id, patch) ==
    IF list = <<>> THEN <<>>
    ELSE <<IF Head(list).id = id THEN Spread(Head(list), patch) ELSE Head(list)>>
         \o RefUpdate(Tail(list), id, patch)

RECURSIVE RefRemove(_, _)
RefRemove(list, id) ==
    IF list = <<>> THEN <<>>
    ELSE IF Head(list).id = id THEN RefRemove(Tail(list), id)
         ELSE <<Head(list)>> \o RefRemove(Tail(list), id)

\* a list without its updatedAt stamps
WithoutUpdatedAt(list) ==
    [i \in 1..Len(list) |->
        [f \in DOMAIN list[i] \ {"updatedAt"} |-> list[i][f]]]

----------------------------------------------------------------------------
\* Transaction store: actions

\* the list once every queued update has run
TxnEffective ==
    RunTxnQueue(tQueue, [list |-> transactions, same |-> TRUE, calls |-> tCalls],
                now).list

IdsOf(list) == {list[i].id : i \in {j \in 1..Len(list) : Has(list[j], "id")}}

TxnIdArgs == IdsOf(transactions) \cup IdsOf(TxnEffective) \cup {UnknownId}

\* React evaluates a functional update at once only when the provider has no
\* update pending
TxnIdle == tQueue = <<>> /\ tPending.loading = NoUpdate /\ tPending.error = NoUpdate

\* a save effect without the isLoading gate
SaveTransactionsUngated(list, isLoading, other) ==
    IF SetItemAccepted(Stringify(list), other)
    THEN [called |-> TRUE, storage |-> Stringify(list), failed |-> FALSE]
    ELSE [called |-> TRUE, storage |-> tStorage, failed |-> TRUE]

\* saveTransactions, lines 66-75, with the transactions and the isLoading of
\* the render that scheduled it; other is the text under the other store's
\* key.  It tells whether setItem was called, what the key holds afterwards
\* and whether setError was called.
SaveTransactions(list, isLoading, other) ==
    IF isLoading
    THEN [called |-> FALSE, storage |-> tStorage, failed |-> FALSE]
    ELSE IF SetItemAccepted(Stringify(list), other)
    THEN [called |-> TRUE, storage |-> Stringify(list), failed |-> FALSE]
    ELSE [called |-> TRUE, storage |-> tStorage, failed |-> TRUE]

\* what a run of the save effect leaves in the write counters
TxnSaved(sv, list) ==
    /\ tStorage' = sv.storage
    /\ tWrites' = IF sv.called THEN tWrites + 1 ELSE tWrites
    /\ tFirstWrite' = IF sv.called /\ tWrites = 0
                      THEN [done |-> TRUE, list |-> list]
                      ELSE tFirstWrite

\* loadTransactions, lines 40-57: the updates it requests
LoadTransactions ==
    LET parsed == Parse(tStorage)
    IN  IF tStorage \in {Missing, Empty}
        THEN [queue |-> tQueue, error |-> NoError]
        ELSE IF parsed.ok
        THEN [queue |-> Append(tQueue, [kind |-> "set", list |-> parsed.val]),
              error |-> NoError]
        ELSE [queue |-> tQueue, error |-> LoadError]

\* The effects of the first render, lines 39-78: loadTransactions, then
\* saveTransactions with the state of that render.
TMount ==
    LET ld == LoadTransactions
        sv == SaveTransactions(transactions, tIsLoading, bStorage')
    IN  /\ tQueue' = ld.queue
        /\ tPending' = [loading |-> "false",
                        error |-> CaughtError(sv, ld.error)]
        /\ TxnSaved(sv, transactions)
        /\ UNCHANGED <<transactions, tIsLoading, tError, tCalls, tInitial, tRef>>

\* addTransaction(transaction), lines 92-109
AddTransaction(transaction, r) ==
    /\ Len(tCalls) + Len(bCalls) < CallLimit
    /\ phase # "crashed"
    /\ LET newTransaction == NewTransaction(transaction, now, r)
       IN  /\ tQueue' = Append(tQueue, [kind |-> "add", txn |-> newTransaction])
           /\ tCalls' = Append(tCalls,
                  [NewCall("add", newTransaction.id, now, tIsLoading)
                      EXCEPT !.res = Resolved(newTransaction)])
           /\ tRef' = IF tRef.on
                      THEN [tRef EXCEPT !.list = <<newTransaction>> \o @]
                      ELSE tRef
    /\ UNCHANGED <<avars, ivars, pvars, now, quota, phase, transactions, tIsLoading, tError, tPending,
                   tStorage, tWrites, tFirstWrite, tInitial, bvars>>

\* updateTransaction(id, updatedData), lines 117-144
UpdateTransactionCall(id, updatedData, eager) ==
    /\ Len(tCalls) + Len(bCalls) < CallLimit
    /\ phase # "crashed"
    /\ eager => TxnIdle
    /\ LET call == NewCall("update", id, now, tIsLoading)
           r == UpdateUpdater(transactions, id, updatedData, now)
       IN  IF eager
           THEN /\ tCalls' = Append(tCalls,
                       Settled(call, r.res, now, transactions, r.list))
                /\ tQueue' = IF r.same THEN tQueue
                             ELSE <<[kind |-> "set", list |-> r.list]>>
           ELSE /\ tCalls' = Append(tCalls, call)
                /\ tQueue' = Append(tQueue, [kind |-> "update", id |-> id,
                                             patch |-> updatedData,
                                             call |-> Len(tCalls) + 1])
    /\ tRef' = IF tRef.on
               THEN [tRef EXCEPT !.list = RefUpdate(@, id, updatedData)]
               ELSE tRef
    /\ UNCHANGED <<avars, ivars, now, quota, phase, transactions, tIsLoading, tError, tPending,
                   tStorage, tWrites, tFirstWrite, tInitial, bvars>>

\* updateTransaction called by anything but the form of the page
UpdateTransaction(id, updatedData, eager) ==
    /\ UpdateTransactionCall(id, updatedData, eager)
    /\ UNCHANGED pvars

\* deleteTransaction(id), lines 151-167
DeleteTransaction(id, eager) ==
    /\ Len(tCalls) + Len(bCalls) < CallLimit
    /\ phase # "crashed"
    /\ eager => TxnIdle
    /\ LET call == NewCall("delete", id, now, tIsLoading)
           r == DeleteUpdater(transactions, id)
       IN  IF eager
           THEN /\ tCalls' = Append(tCalls,
                       Settled(call, r.res, now, transactions, r.list))
                /\ tQueue' = IF r.same THEN tQueue
                             ELSE <<[kind |-> "set", list |-> r.list]>>
           ELSE /\ tCalls' = Append(tCalls, call)
                /\ tQueue' = Append(tQueue, [kind |-> "delete", id |-> id,
                                             call |-> Len(tCalls) + 1])
    /\ tRef' = IF tRef.on
               THEN [tRef EXCEPT !.list = RefRemove(@, id)]
               ELSE tRef
    /\ UNCHANGED <<avars, ivars, pvars, now, quota, phase, transactions, tIsLoading, tError, tPending,
                   tStorage, tWrites, tFirstWrite, tInitial, bvars>>

\* The transaction provider's part of a render: the queued updates are
\* applied and committed, then saveTransactions runs if transactions or
\* isLoading changed.  It runs after the inner provider's saveBudgets.
TRender ==
    LET st == RunTxnQueue(tQueue, [list |-> transactions, same |-> TRUE,
                                   calls |-> tCalls], now)
        isLoading == IF tPending.loading = NoUpdate THEN tIsLoading
                     ELSE tPending.loading = "true"
        error == IF tPending.error = NoUpdate THEN tError ELSE tPending.error
        changed == ~st.same \/ isLoading # tIsLoading
        sv == IF changed THEN SaveTransactions(st.list, isLoading, bStorage')
              ELSE [called |-> FALSE, storage |-> tStorage, failed |-> FALSE]
    IN  /\ transactions' = st.list
        /\ tCalls' = st.calls
        /\ tIsLoading' = isLoading
        /\ tError' = error
        /\ tQueue' = <<>>
        /\ tRef' = IF tIsLoading /\ ~isLoading
                   THEN [on |-> TRUE, list |-> st.list]
                   ELSE tRef
        /\ TxnSaved(sv, st.list)
        /\ tPending' = [loading |-> NoUpdate,
                        error |-> CaughtError(sv, NoUpdate)]
        /\ UNCHANGED tInitial

----------------------------------------------------------------------------
\* Budget store: addOrUpdateBudget and the functional updates of setBudgets

\* b => b.category === budget.category && b.month === budget.month
SamePair(b, budget) ==
    /\ Has(b, "category") /\ Has(b, "month")
    /\ b.category = budget.category /\ b.month = budget.month

\* array.findIndex(p) for a callback that reads a field of its argument: it
\* throws a TypeError when it comes to a hole (undefined) or a null before
\* it comes to a match.
FindIndexOrThrow(list, P(_)) ==
    LET hit == {i \in 1..Len(list) : IsObject(list[i]) /\ P(list[i])}
        bad == {i \in 1..Len(list) : ~IsObject(list[i])}
        first == IF hit = {} THEN 0 ELSE Min(hit)
    IN  IF bad # {} /\ (first = 0 \/ Min(bad) < first)
        THEN [threw |-> TRUE, index |-> 0]
        ELSE [threw |-> FALSE, index |-> first]

\* line 96: the search of the budgets of the render that made the callback
ExistingBudgetIndex(snapshot, budget) ==
    FindIndexOrThrow(snapshot, LAMBDA b : SamePair(b, budget))

\* lines 102-110: the update of an existing budget, at the index found in
\* the snapshot; an index past the end of prev leaves holes before it
UpdateAtUpdater(prev, existingBudgetIndex, amount, timestamp) ==
    LET n == IF existingBudgetIndex > Len(prev) THEN existingBudgetIndex
             ELSE Len(prev)
        old == IF existingBudgetIndex <= Len(prev) /\ IsObject(prev[existingBudgetIndex])
               THEN prev[existingBudgetIndex]
               ELSE EmptyObject
    IN  [i \in 1..n |->
            IF i = existingBudgetIndex
            THEN Spread(old, [amount |-> amount, updatedAt |-> timestamp])
            ELSE IF i <= Len(prev) THEN prev[i] ELSE Hole]

\* line 111: what the promise of an update resolves with
UpdatedBudgetResult(snapshot, existingBudgetIndex, amount, timestamp) ==
    Spread(snapshot[existingBudgetIndex],
           [amount |-> amount, updatedAt |-> timestamp])

\* lines 114-119
NewBudget(budget, timestamp, r) ==
    Spread(budget, [id |-> BudgetId(timestamp, r),
                    createdAt |-> timestamp, updatedAt |-> timestamp])

\* lines 121-124
AppendUpdater(prev, newBudget) == prev \o <<newBudget>>

\* deleteBudget, lines 138-150; filter passes over holes
DeleteBudgetUpdater(prev, id) ==
    LET existingIndex == FindIndexOrThrow(prev, LAMBDA b : Has(b, "id") /\ b.id = id)
    IN  IF existingIndex.threw
        THEN [list |-> prev, same |-> TRUE, threw |-> TRUE, res |-> Pending]
        ELSE IF existingIndex.index = 0
        THEN [list |-> prev, same |-> TRUE, threw |-> FALSE, res |-> Resolved(FALSE)]
        ELSE [list |-> Filter(prev, LAMBDA b : b # Hole /\ ~HasId(b, id)),
              same |-> FALSE, threw |-> FALSE, res |-> Resolved(TRUE)]

ApplyBudgetUpdate(u, st, clock) ==
    CASE st.threw -> st
      [] u.kind = "set" ->
            [st EXCEPT !.list = u.list, !.same = FALSE]
      [] u.kind = "append" ->
            [st EXCEPT !.list = AppendUpdater(st.list, u.budget), !.same = FALSE]
      [] u.kind = "updateAt" ->
            [st EXCEPT !.list = UpdateAtUpdater(st.list, u.index, u.amount, u.timestamp),
                       !.same = FALSE]
      [] u.kind = "delete" ->
            LET r == DeleteBudgetUpdater(st.list, u.id)
            IN  [list |-> r.list, same |-> st.same /\ r.same, threw |-> r.threw,
                 calls |-> [st.calls EXCEPT ![u.call] =
                               IF r.threw THEN @
                               ELSE Settled(@, r.res, clock, st.list, r.list)]]

RECURSIVE RunBudgetQueue(_, _, _)
RunBudgetQueue(q, st, clock) ==
    IF q = <<>> THEN st
    ELSE RunBudgetQueue(Tail(q), ApplyBudgetUpdate(Head(q), st, clock), clock)

----------------------------------------------------------------------------
\* Budget store: actions

BudgetIdle == bQueue = <<>> /\ bPending.loading = NoUpdate /\ bPending.error = NoUpdate

BudgetStart == [list |-> budgets, same |-> TRUE, threw |-> FALSE, calls |-> bCalls]

BudgetEffective == RunBudgetQueue(bQueue, BudgetStart, now).list

BudgetIdArgs == IdsOf(budgets) \cup IdsOf(BudgetEffective) \cup {UnknownBudgetId}

\* a save effect that serializes the budgets of the render before
SaveBudgetsStale(list, isLoading, other) ==
    IF isLoading
    THEN [called |-> FALSE, storage |-> bStorage, failed |-> FALSE]
    ELSE IF SetItemAccepted(Stringify(budgets), other)
    THEN [called |-> TRUE, storage |-> Stringify(budgets), failed |-> FALSE]
    ELSE [called |-> TRUE, storage |-> bStorage, failed |-> TRUE]

\* saveBudgets, lines 65-74, as saveTransactions
SaveBudgets(list, isLoading, other) ==
    IF isLoading
    THEN [called |-> FALSE, storage |-> bStorage, failed |-> FALSE]
    ELSE IF SetItemAccepted(Stringify(list), other)
    THEN [called |-> TRUE, storage |-> Stringify(list), failed |-> FALSE]
    ELSE [called |-> TRUE, storage |-> bStorage, failed |-> TRUE]

BudgetSaved(sv, list) ==
    /\ bStorage' = sv.storage
    /\ bWrites' = IF sv.called THEN bWrites + 1 ELSE bWrites
    /\ bFirstWrite' = IF sv.called /\ bWrites = 0
                      THEN [done |-> TRUE, list |-> list]
                      ELSE bFirstWrite

\* a load whose catch block does not call setError
LoadBudgetsSilent ==
    LET parsed == Parse(bStorage)
    IN  IF bStorage \in {Missing, Empty}
        THEN [queue |-> bQueue, error |-> NoError]
        ELSE IF parsed.ok
        THEN [queue |-> Append(bQueue, [kind |-> "set", list |-> parsed.val]),
              error |-> NoError]
        ELSE [queue |-> bQueue, error |-> NoError]

\* loadBudgets, lines 39-56: the updates it requests
LoadBudgets ==
    LET parsed == Parse(bStorage)
    IN  IF bStorage \in {Missing, Empty}
        THEN [queue |-> bQueue, error |-> NoError]
        ELSE IF parsed.ok
        THEN [queue |-> Append(bQueue, [kind |-> "set", list |-> parsed.val]),
              error |-> NoError]
        ELSE [queue |-> bQueue, error |-> LoadError]

\* The effects of the first render, lines 38-77: loadBudgets, then
\* saveBudgets with the state of that render.
BMount ==
    LET ld == LoadBudgets
        sv == SaveBudgets(budgets, bIsLoading, tStorage)
    IN  /\ bQueue' = ld.queue
        /\ bPending' = [loading |-> "false",
                        error |-> CaughtError(sv, ld.error)]
        /\ BudgetSaved(sv, budgets)
        /\ UNCHANGED <<budgets, bIsLoading, bError, bCalls, bInitial>>

\* addOrUpdateBudget(budget), lines 91-129, called through the context value
\* of the last render: the budgets it searches are the committed ones.  An
\* exception thrown by the search rejects the promise.
AddOrUpdateBudget(budget, r) ==
    /\ Len(tCalls) + Len(bCalls) < CallLimit
    /\ phase # "crashed"
    /\ LET timestamp == now
           existing == ExistingBudgetIndex(budgets, budget)
           call == [op |-> "upsert", budget |-> budget, at |-> timestamp,
                    loading |-> bIsLoading, index |-> existing.index,
                    res |-> Pending]
       IN  IF existing.threw
           THEN /\ bCalls' = Append(bCalls, [call EXCEPT !.res = Rejected("TypeError")])
                /\ bQueue' = bQueue
           ELSE IF existing.index >= 1
           THEN /\ bQueue' = Append(bQueue,
                        [kind |-> "updateAt", index |-> existing.index,
                         amount |-> budget.amount, timestamp |-> timestamp])
                /\ bCalls' = Append(bCalls, [call EXCEPT !.res =
                        Resolved(UpdatedBudgetResult(budgets, existing.index,
                                                     budget.amount, timestamp))])
           ELSE LET newBudget == NewBudget(budget, timestamp, r)
                IN  /\ bQueue' = Append(bQueue, [kind |-> "append", budget |-> newBudget])
                    /\ bCalls' = Append(bCalls, [call EXCEPT !.res = Resolved(newBudget)])
    /\ UNCHANGED <<avars, ivars, pvars, now, quota, phase, tvars, budgets, bIsLoading, bError, bPending,
                   bStorage, bWrites, bFirstWrite, bInitial>>

\* deleteBudget(id), lines 136-152.  An eager evaluation that throws is
\* discarded by React and the update runs again in the render.
DeleteBudget(id, eager) ==
    /\ Len(tCalls) + Len(bCalls) < CallLimit
    /\ phase # "crashed"
    /\ eager => BudgetIdle
    /\ LET call == NewCall("delete", id, now, bIsLoading)
           r == DeleteBudgetUpdater(budgets, id)
       IN  IF eager /\ ~r.threw
           THEN /\ bCalls' = Append(bCalls,
                       Settled(call, r.res, now, budgets, r.list))
                /\ bQueue' = IF r.same THEN bQueue
                             ELSE <<[kind |-> "set", list |-> r.list]>>
           ELSE /\ bCalls' = Append(bCalls, call)
                /\ bQueue' = Append(bQueue, [kind |-> "delete", id |-> id,
                                             call |-> Len(bCalls) + 1])
    /\ UNCHANGED <<avars, ivars, pvars, now, quota, phase, tvars, budgets, bIsLoading, bError, bPending,
                   bStorage, bWrites, bFirstWrite, bInitial>>

\* The budget provider's part of a render.
BRender ==
    LET st == RunBudgetQueue(bQueue, BudgetStart, now)
        isLoading == IF bPending.loading = NoUpdate THEN bIsLoading
                     ELSE bPending.loading = "true"
        error == IF bPending.error = NoUpdate THEN bError ELSE bPending.error
        changed == ~st.same \/ isLoading # bIsLoading
        sv == IF changed THEN SaveBudgets(st.list, isLoading, tStorage)
              ELSE [called |-> FALSE, storage |-> bStorage, failed |-> FALSE]
    IN  /\ budgets' = st.list
        /\ bCalls' = st.calls
        /\ bIsLoading' = isLoading
        /\ bError' = error
        /\ bQueue' = <<>>
        /\ BudgetSaved(sv, st.list)
        /\ bPending' = [loading |-> NoUpdate,
                        error |-> CaughtError(sv, NoUpdate)]
        /\ UNCHANGED bInitial

----------------------------------------------------------------------------
\* The application: TransactionProvider around BudgetProvider (pages/_app.js)

\* no page is followed
NoPage == "none"
\* the pages: the dashboard at "/", its earlier form that uses the
\* transaction store only, and "/budgeting"
Pages == {"dashboard", "index", "budgeting"}
HomePages == {"dashboard", "index"}

\* whether the page has the effect that clears the store's error
ClearsTransactionsError(p) == p \in {"dashboard", "index"}
ClearsBudgetsError(p) == p = "dashboard"

\* The effect `if (error) { timer = setTimeout(clearError, 5000); return () =>
\* clearTimeout(timer) }` with dependencies [error, clearError], after a commit
\* that changes error to committed: whether a timer is pending afterwards.
ErrorTimer(clears, timer, error, committed) ==
    IF ~clears THEN FALSE
    ELSE IF committed = error THEN timer
    ELSE committed # NoError

\* the effects of the page after a commit
PageEffects ==
    /\ tTimer' = ErrorTimer(ClearsTransactionsError(page), tTimer, tError, tError')
    /\ bTimer' = ErrorTimer(ClearsBudgetsError(page), bTimer, bError, bError')
    /\ UNCHANGED <<page, editing, awaited, feedback>>

\* the tree is unmounted: the cleanups clear the timers
PageUnmounted ==
    /\ tTimer' = FALSE
    /\ bTimer' = FALSE
    /\ UNCHANGED <<page, editing, awaited, feedback>>

\* The effects of the first render run in one flush, the inner provider's
\* first.
Mount ==
    /\ phase = "constructed"
    /\ phase' = "mounted"
    /\ BMount
    /\ TMount
    /\ PageEffects
    /\ UNCHANGED <<avars, ivars, now, quota>>

\* whether applying the queued budget updates throws
RenderThrows == RunBudgetQueue(bQueue, BudgetStart, now).threw

\* A render: every provider with pending updates applies and commits them,
\* then the effects whose dependencies changed run, the inner provider's
\* first.  When an update throws, nothing is committed and React unmounts
\* the tree, as no error boundary is around the providers; the promises that
\* the updates before it settled stay settled.
Render ==
    /\ phase = "mounted"
    /\ ~TxnIdle \/ ~BudgetIdle
    /\ IF RenderThrows
       THEN /\ phase' = "crashed"
            /\ bCalls' = RunBudgetQueue(bQueue, BudgetStart, now).calls
            /\ PageUnmounted
            /\ UNCHANGED <<tvars, budgets, bIsLoading, bError, bQueue, bPending,
                           bStorage, bWrites, bFirstWrite, bInitial>>
       ELSE /\ phase' = phase
            /\ BRender
            /\ TRender
            /\ PageEffects
    /\ UNCHANGED <<avars, ivars, now, quota>>

----------------------------------------------------------------------------
\* The pages: the timers that clear the errors, and the transaction form

\* the timer of the transaction store's error fires: clearError()
TxnTimerFires ==
    /\ phase = "mounted"
    /\ tTimer
    /\ tTimer' = FALSE
    /\ tPending' = [tPending EXCEPT !.error = NoError]
    /\ UNCHANGED <<avars, ivars, now, quota, phase, transactions, tIsLoading, tError,
                   tQueue, tStorage, tCalls, tWrites, tFirstWrite, tInitial, tRef,
                   bvars, page, bTimer, editing, awaited, feedback>>

\* the timer of the budget store's error fires: clearError()
BudgetTimerFires ==
    /\ phase = "mounted"
    /\ bTimer
    /\ bTimer' = FALSE
    /\ bPending' = [bPending EXCEPT !.error = NoError]
    /\ UNCHANGED <<avars, ivars, now, quota, phase, budgets, bIsLoading, bError,
                   bQueue, bStorage, bCalls, bWrites, bFirstWrite, bInitial,
                   tvars, page, tTimer, editing, awaited, feedback>>

NoEditing == Null

\* the user follows a link to page p: the page is unmounted, which clears
\* its timers and drops its state, and p is mounted, whose effects run
Navigate(p) ==
    /\ phase = "mounted"
    /\ page # NoPage
    /\ p # page
    /\ page' = p
    /\ tTimer' = (ClearsTransactionsError(p) /\ tError # NoError)
    /\ bTimer' = (ClearsBudgetsError(p) /\ bError # NoError)
    /\ editing' = NoEditing
    /\ awaited' = 0
    /\ feedback' = "none"
    /\ UNCHANGED <<avars, ivars, now, quota, phase, tvars, bvars>>

\* whether the page shows the form and the list instead of the loading screen
PageLoaded ==
    /\ page \in HomePages
    /\ ~tIsLoading
    /\ page = "dashboard" => ~bIsLoading

\* handleEditTransaction(transaction), from the list's edit button; the
\* form's effect on initialData clears its feedback
EditTransaction(transaction) ==
    /\ phase = "mounted"
    /\ PageLoaded
    /\ awaited = 0
    /\ editing' = transaction
    /\ feedback' = "none"
    /\ UNCHANGED <<avars, ivars, now, quota, phase, tvars, bvars,
                   page, tTimer, bTimer, awaited>>

\* the data of a form that passes validateTransaction
FormData == {[amount |-> 6, date |-> <<1, 2>>, description |-> "lunch",
              category |-> "Food"]}

\* TransactionForm.handleSubmit with a transaction being edited, up to the
\* await: Home.handleSubmit calls updateTransaction(editingTransaction.id,
\* transaction) and awaits it
SubmitEdit(formData, eager) ==
    /\ phase = "mounted"
    /\ PageLoaded
    /\ editing # NoEditing
    /\ awaited = 0
    /\ UpdateTransactionCall(editing.id, formData, eager)
    /\ awaited' = Len(tCalls) + 1
    /\ UNCHANGED <<page, tTimer, bTimer, editing, feedback>>

\* TransactionForm.handleSubmit after `await onSubmit(...)`: onSubmit is
\* Home.handleSubmit, which catches the rejection and returns false, a value
\* the form does not look at
FeedbackOf(res) == "success"

\* The awaited promise has settled.  Home.handleSubmit resets
\* editingTransaction when it resolved and returns false when it rejected;
\* TransactionForm.handleSubmit goes on to set its feedback.
FormContinues ==
    /\ phase = "mounted"
    /\ awaited > 0
    /\ tCalls[awaited].res.st # "pending"
    /\ editing' = IF tCalls[awaited].res.st = "resolved" THEN NoEditing ELSE editing
    /\ feedback' = FeedbackOf(tCalls[awaited].res)
    /\ awaited' = 0
    /\ UNCHANGED <<avars, ivars, now, quota, phase, tvars, bvars,
                   page, tTimer, bTimer>>

----------------------------------------------------------------------------
\* Numbers: the IEEE 754 double arithmetic of Math.round((a / b) * 100)

\* A positive double is [bits |-> its 53 significant bits, first the leading
\* one, exp |-> the power of two of the leading bit].
MantissaBits == 53

Zero == [zero |-> TRUE]

\* the division of a positive number by zero, and of zero by zero
Infinity == [nonfinite |-> "Infinity"]
NaN == [nonfinite |-> "NaN"]

\* an integer, as a number
Integer(n) == [int |-> n]

\* the binary digits of a positive integer, the leading one first
RECURSIVE IntBits(_)
IntBits(n) == IF n = 0 THEN <<>> ELSE Append(IntBits(n \div 2), n % 2)

RECURSIVE BitsToInt(_)
BitsToInt(bits) ==
    IF bits = <<>> THEN 0
    ELSE 2 * BitsToInt(SubSeq(bits, 1, Len(bits) - 1)) + bits[Len(bits)]

\* what remains of r / b, for 0 <= r < b, after n binary digits
RECURSIVE RemAfter(_, _, _)
RemAfter(r, b, n) == IF n = 0 THEN r ELSE (2 * RemAfter(r, b, n - 1)) % b

\* the next n binary digits of r / b, for 0 <= r < b, and what remains
FracBits(r, b, n) ==
    [bits |-> [k \in 1..n |-> IF 2 * RemAfter(r, b, k - 1) >= b THEN 1 ELSE 0],
     rem |-> RemAfter(r, b, n)]

\* the number of zero digits of r / b after the binary point, for 0 < r < b
RECURSIVE LeadingZeros(_, _)
LeadingZeros(r, b) == IF 2 * r >= b THEN 0 ELSE 1 + LeadingZeros(2 * r, b)

RECURSIVE Power2(_)
Power2(n) == IF n = 0 THEN 1 ELSE 2 * Power2(n - 1)

Zeros(n) == IF n <= 0 THEN <<>> ELSE [i \in 1..n |-> 0]

\* the n binary digits of d, for 0 <= d < 2^n
FixedBits(d, n) == [i \in 1..n |-> (d \div Power2(n - i)) % 2]

\* a sequence of digits plus one
Increment(digits) ==
    LET zeroAt == {i \in 1..Len(digits) : digits[i] = 0}
        last == CHOOSE i \in zeroAt : \A j \in zeroAt : j <= i
    IN  IF zeroAt = {} THEN <<1>> \o Zeros(Len(digits))
        ELSE [i \in 1..Len(digits) |->
                 IF i < last THEN digits[i] ELSE IF i = last THEN 1 ELSE 0]

\* round to nearest, ties to even: digits is an exact value whose leading
\* digit is one and stands for 2^exp, more says whether non-zero digits
\* follow those of digits
RoundToDouble(digits, exp, more) ==
    IF Len(digits) <= MantissaBits /\ ~more
    THEN [bits |-> digits \o Zeros(MantissaBits - Len(digits)), exp |-> exp]
    ELSE LET padded == digits \o Zeros(MantissaBits + 1 - Len(digits))
             kept == SubSeq(padded, 1, MantissaBits)
             guard == padded[MantissaBits + 1]
             sticky == more \/ \E i \in (MantissaBits + 2)..Len(padded) : padded[i] = 1
             up == guard = 1 /\ (sticky \/ kept[MantissaBits] = 1)
             raised == Increment(kept)
         IN  IF ~up THEN [bits |-> kept, exp |-> exp]
             ELSE IF Len(raised) > MantissaBits
             THEN [bits |-> SubSeq(raised, 1, MantissaBits), exp |-> exp + 1]
             ELSE [bits |-> raised, exp |-> exp]

\* a / b for integers a >= 0 and b >= 0
Divide(a, b) ==
    IF b = 0 THEN (IF a = 0 THEN NaN ELSE Infinity)
    ELSE IF a = 0 THEN Zero
    ELSE LET whole == IntBits(a \div b)
             r == a % b
             zeros == IF whole = <<>> /\ r > 0 THEN LeadingZeros(r, b) ELSE 0
             start == IF whole = <<>> THEN r * Power2(zeros) ELSE r
             frac == FracBits(start, b, MantissaBits + 1 - Len(whole))
         IN  RoundToDouble(whole \o frac.bits,
                           IF whole = <<>> THEN -(zeros + 1) ELSE Len(whole) - 1,
                           frac.rem # 0)

\* x * 100: the 53 digits taken as 17, 18 and 18, each part times 100 with
\* the carry of the part below it
Times100(x) ==
    IF x \in {NaN, Infinity} THEN x
    ELSE IF x = Zero THEN Zero
    ELSE LET low == 100 * BitsToInt(SubSeq(x.bits, 36, 53))
             mid == 100 * BitsToInt(SubSeq(x.bits, 18, 35)) + low \div Power2(18)
             high == 100 * BitsToInt(SubSeq(x.bits, 1, 17)) + mid \div Power2(18)
             digits == IntBits(high) \o FixedBits(mid % Power2(18), 18)
                                     \o FixedBits(low % Power2(18), 18)
         IN  RoundToDouble(digits, x.exp - (MantissaBits - 1) + Len(digits) - 1, FALSE)

\* Math.round(x): the nearest integer, a half going up
MathRound(x) ==
    IF x \in {NaN, Infinity} THEN x
    ELSE IF x = Zero THEN Integer(0)
    ELSE IF x.exp < -1 THEN Integer(0)
    ELSE IF x.exp = -1 THEN Integer(1)
    ELSE Integer(BitsToInt(SubSeq(x.bits, 1, x.exp + 1))
                 + (IF x.exp + 2 <= MantissaBits THEN x.bits[x.exp + 2] ELSE 0))

\* Math.round((a / b) * 100)
Percent(a, b) == MathRound(Times100(Divide(a, b)))

----------------------------------------------------------------------------
\* Aggregation (lib/utils): dates

\* monthYear "2025-01" is 1, "2025-02" is 2, ...; a date "2025-MM-DD" is
\* <<MM, DD>>.  Instants are hours since 2025-01-01T00:00Z.
DaysInMonth(m) == CASE m = 1 -> 31 [] m = 2 -> 28 [] OTHER -> 31

RECURSIVE DaysBefore(_)
DaysBefore(m) == IF m <= 1 THEN 0 ELSE DaysBefore(m - 1) + DaysInMonth(m - 1)

\* a date string that new Date() does not parse
InvalidDate == <<0, 0>>

\* a monthYear that is empty or undefined
NoMonth == 0

\* new Date(t.date): a date-only ISO string is midnight UTC of that day; a
\* missing or unparseable date is an Invalid Date
NewDate(t) ==
    IF Has(t, "date") /\ t.date # InvalidDate
    THEN [valid |-> TRUE, time |-> 24 * (DaysBefore(t.date[1]) + t.date[2] - 1)]
    ELSE [valid |-> FALSE, time |-> 0]

\* startOfMonth(new Date(year, month - 1)): midnight of the 1st, local time
StartOfMonth(m, offset) == 24 * DaysBefore(m) - offset

\* endOfMonth(new Date(year, month - 1)) is the last millisecond of the
\* month, local time; this is the instant after it
AfterEndOfMonth(m, offset) == 24 * (DaysBefore(m) + DaysInMonth(m)) - offset

\* getTransactionsForMonth, lines 377-390; every comparison with an Invalid
\* Date is false
GetTransactionsForMonth(txns, monthYear, offset) ==
    IF txns = <<>> \/ monthYear = NoMonth THEN <<>>
    ELSE Filter(txns, LAMBDA t :
            /\ NewDate(t).valid
            /\ NewDate(t).time >= StartOfMonth(monthYear, offset)
            /\ NewDate(t).time < AfterEndOfMonth(monthYear, offset))

\* transaction.category || 'Other'
CategoryOrOther(t) ==
    IF Has(t, "category") /\ t.category # "" THEN t.category ELSE "Other"

Range(seq) == {seq[i] : i \in 1..Len(seq)}

\* the elements of a sequence in the order of their first occurrence: the
\* order of the keys of an object and of the values of a Set
RECURSIVE Distinct(_)
Distinct(seq) ==
    IF seq = <<>> THEN <<>>
    ELSE LET front == Distinct(SubSeq(seq, 1, Len(seq) - 1))
             last == seq[Len(seq)]
         IN  IF last \in Range(front) THEN front ELSE Append(front, last)

\* array.sort(compare), which is stable: the entries in the order of Less,
\* those that compare equal in the order they had
StableSort(seq, Less(_, _)) ==
    LET Pos(i) == 1 + Cardinality({j \in 1..Len(seq) :
                        \/ Less(seq[j], seq[i])
                        \/ (~Less(seq[i], seq[j]) /\ j < i)})
    IN  [p \in 1..Len(seq) |-> seq[CHOOSE i \in 1..Len(seq) : Pos(i) = p]]

\* `${date.getFullYear()}-${String(date.getMonth() + 1).padStart(2, '0')}`,
\* line 256: the year and month of the instant in local time, <<2025, 1>>
\* for "2025-01"
MonthKey(time, offset) ==
    LET local == time + offset
    IN  IF local < 0 THEN <<2024, 12>>
        ELSE <<2025, CHOOSE m \in 1..12 :
                        /\ 24 * DaysBefore(m) <= local
                        /\ local < 24 * DaysBefore(m + 1)>>

\* a.key.localeCompare(b.key) < 0, for keys of four and two digits
KeyBefore(a, b) ==
    \/ a.key[1] < b.key[1]
    \/ a.key[1] = b.key[1] /\ a.key[2] < b.key[2]

\* format(date, 'MMM yyyy'): the name of the local month of the instant
MonthName(key) == <<"MMM yyyy", key[2], key[1]>>

\* groupTransactionsByMonth, lines 242-272
GroupTransactionsByMonth(txns, offset) ==
    IF txns = <<>> THEN <<>>
    ELSE LET dated == Filter(txns, LAMBDA t : Has(t, "date") /\ NewDate(t).valid)
             KeyOf(t) == MonthKey(NewDate(t).time, offset)
             keys == Distinct([i \in 1..Len(dated) |-> KeyOf(dated[i])])
             grouped == [i \in 1..Len(keys) |->
                 [name |-> MonthName(keys[i]),
                  total |-> SumAmounts(Filter(dated, LAMBDA t : KeyOf(t) = keys[i])),
                  key |-> keys[i]]]
         IN  StableSort(grouped, KeyBefore)

\* calculateMonthlyExpensesByCategory, lines 398-414: the keys of the object
\* it returns, in order, and the value under each
CalculateMonthlyExpensesByCategory(txns, monthYear, offset) ==
    IF txns = <<>> \/ monthYear = NoMonth
    THEN [keys |-> <<>>, total |-> EmptyObject]
    ELSE LET monthly == GetTransactionsForMonth(txns, monthYear, offset)
             expenses == Filter(monthly, LAMBDA t : t.amount < 0)
             keys == Distinct([i \in 1..Len(expenses) |-> CategoryOrOther(expenses[i])])
         IN  [keys |-> keys,
              total |-> [c \in Range(keys) |->
                  SumAbsAmounts(Filter(expenses, LAMBDA t : CategoryOrOther(t) = c))]]

\* compareBudgetWithActual, lines 423-454
CompareBudgetWithActual(txns, budgetList, monthYear, offset) ==
    IF monthYear = NoMonth THEN <<>>
    ELSE LET actualByCategory ==
                 CalculateMonthlyExpensesByCategory(txns, monthYear, offset)
             monthBudgets ==
                 Filter(budgetList, LAMBDA b : Has(b, "month") /\ b.month = monthYear)
             allCategories ==
                 Distinct(actualByCategory.keys
                          \o [i \in 1..Len(monthBudgets) |-> monthBudgets[i].category])
         IN  [i \in 1..Len(allCategories) |->
                LET category == allCategories[i]
                    budget == FindIndex(monthBudgets, LAMBDA b : b.category = category)
                    budgeted == IF budget = 0 THEN 0 ELSE monthBudgets[budget].amount
                    actual == IF category \in Range(actualByCategory.keys)
                              THEN actualByCategory.total[category] ELSE 0
                IN  [category |-> category, budgeted |-> budgeted,
                     actual |-> actual, difference |-> budgeted - actual]]

----------------------------------------------------------------------------
\* Aggregation: generateInsights

\* formatCurrency(amount), for a whole amount
FormatCurrency(amount) == <<"$", amount>>

\* budgetComparison.reduce((sum, item) => sum + item.budgeted, 0)
RECURSIVE TotalBudgeted(_)
TotalBudgeted(rows) ==
    IF rows = <<>> THEN 0 ELSE TotalBudgeted(Tail(rows)) + Head(rows).budgeted

\* budgetComparison.reduce((sum, item) => sum + item.actual, 0)
RECURSIVE TotalActual(_)
TotalActual(rows) ==
    IF rows = <<>> THEN 0 ELSE TotalActual(Tail(rows)) + Head(rows).actual

\* a condition that lets every total through
OverallGuardNone(totalBudgeted) == TRUE

\* line 474
OverallGuard(totalBudgeted) == totalBudgeted > 0

\* lines 473-491; the text is the template and the values put into it
OverallInsight(rows) ==
    LET totalBudgeted == TotalBudgeted(rows)
        totalActual == TotalActual(rows)
        percentSpent == Percent(totalActual, totalBudgeted)
    IN  IF ~OverallGuard(totalBudgeted) THEN <<>>
        ELSE IF totalActual > totalBudgeted
        THEN <<[text |-> <<"overall", "spent more",
                           FormatCurrency(totalActual - totalBudgeted), percentSpent>>,
                type |-> "warning"]>>
        ELSE <<[text |-> <<"overall", "under budget",
                           FormatCurrency(totalBudgeted - totalActual), percentSpent>>,
                type |-> "success"]>>

\* lines 493-507
OverBudgetInsight(rows) ==
    LET overBudgetItems ==
            StableSort(Filter(rows, LAMBDA item :
                                  item.budgeted > 0 /\ item.actual > item.budgeted),
                       LAMBDA a, b : b.actual - b.budgeted < a.actual - a.budgeted)
        worstCategory == overBudgetItems[1]
        overage == worstCategory.actual - worstCategory.budgeted
        percentOver == Percent(overage, worstCategory.budgeted)
    IN  IF overBudgetItems = <<>> THEN <<>>
        ELSE <<[text |-> <<"over budget", worstCategory.category,
                           FormatCurrency(overage), percentOver>>,
                type |-> "warning"]>>

\* lines 509-523
UnderBudgetInsight(rows) ==
    LET underBudgetItems ==
            StableSort(Filter(rows, LAMBDA item :
                                  item.budgeted > 0 /\ item.actual < item.budgeted),
                       LAMBDA a, b : b.budgeted - b.actual < a.budgeted - a.actual)
        bestCategory == underBudgetItems[1]
        savings == bestCategory.budgeted - bestCategory.actual
        percentSaved == Percent(savings, bestCategory.budgeted)
    IN  IF underBudgetItems = <<>> THEN <<>>
        ELSE <<[text |-> <<"saved", bestCategory.category,
                           FormatCurrency(savings), percentSaved>>,
                type |-> "success"]>>

\* budgetComparison.sort((a, b) => b.actual - a.actual), line 526-527: the
\* array itself is put in this order
SortByActual(rows) == StableSort(rows, LAMBDA a, b : b.actual < a.actual)

\* lines 525-536, on the array as sorted
TopSpendingInsight(sorted, totalActual) ==
    LET topSpendingCategory == sorted[1]
        percentOfTotal == Percent(topSpendingCategory.actual, totalActual)
    IN  IF sorted = <<>> \/ ~(topSpendingCategory.actual > 0) THEN <<>>
        ELSE <<[text |-> <<"top", topSpendingCategory.category,
                           FormatCurrency(topSpendingCategory.actual), percentOfTotal>>,
                type |-> "info"]>>

\* lines 538-547
ZeroSpendingInsight(rows) ==
    LET zeroSpendingWithBudget ==
            Filter(rows, LAMBDA item : item.budgeted > 0 /\ item.actual = 0)
    IN  IF zeroSpendingWithBudget = <<>> THEN <<>>
        ELSE <<[text |-> <<"nothing spent", Len(zeroSpendingWithBudget)>>,
                type |-> "info"]>>

\* insights pushed with the top spending category first
PushedTopFirst(overall, over, under, top, zero) ==
    top \o overall \o over \o under \o zero

\* the order of the insights.push calls, lines 487, 503, 519, 532, 543
Pushed(overall, over, under, top, zero) ==
    overall \o over \o under \o top \o zero

\* generateInsights(budgetComparison, stats), lines 462-550: what it returns
\* and what it leaves in the array; stats is not read
GenerateInsights(budgetComparison) ==
    IF budgetComparison = <<>>
    THEN [insights |-> <<>>, array |-> budgetComparison]
    ELSE LET sorted == SortByActual(budgetComparison)
         IN  [insights |-> Pushed(OverallInsight(budgetComparison),
                                  OverBudgetInsight(budgetComparison),
                                  UnderBudgetInsight(budgetComparison),
                                  TopSpendingInsight(sorted, TotalActual(budgetComparison)),
                                  ZeroSpendingInsight(sorted)),
              array |-> sorted]

MaxRows == 2        \* the comparison passed in has up to MaxRows rows

\* rows as compareBudgetWithActual makes them
ComparisonRows ==
    {[category |-> c, budgeted |-> b, actual |-> a, difference |-> b - a] :
        c \in {"Food", "Fun"}, b \in {0, 5, 40}, a \in {0, 3, 7, 42, 63}}

\* const generatedInsights = generateInsights(comparisonData, stats)
Generate ==
    /\ iPc = "input"
    /\ LET r == GenerateInsights(iArray)
       IN  iFirst' = r.insights /\ iArray' = r.array
    /\ iPc' = "once"
    /\ UNCHANGED <<iGiven, iSecond, iDashboard, avars, pvars, now, quota, phase,
                   tvars, bvars>>

\* generateInsights called again with the same array
GenerateAgain ==
    /\ iPc = "once"
    /\ LET r == GenerateInsights(iArray)
       IN  iSecond' = r.insights /\ iArray' = r.array
    /\ iPc' = "twice"
    /\ UNCHANGED <<iGiven, iFirst, iDashboard, avars, pvars, now, quota, phase,
                   tvars, bvars>>

\* the dashboard's effect has not run
NotSummarized == [done |-> FALSE]

\* Home's effect "Generate budget insights for current month", part_002
\* lines 61-67: the insight on the total
DashboardOverall(comparison) ==
    LET totalBudgeted == TotalBudgeted(comparison)
        totalActual == TotalActual(comparison)
        percentSpent == Percent(totalActual, totalBudgeted)
    IN  IF ~(totalBudgeted > 0) THEN <<>>
        ELSE <<[text |-> <<"used", percentSpent>>,
                type |-> IF percentSpent.int > 100 THEN "warning" ELSE "info"]>>

\* part_002 lines 70-79: the number of categories over budget
DashboardOverBudget(comparison) ==
    LET overBudgetItems ==
            Len(Filter(comparison, LAMBDA item :
                           item.budgeted > 0 /\ item.actual > item.budgeted))
    IN  IF ~(overBudgetItems > 0) THEN <<>>
        ELSE <<[text |-> <<"categories over budget", overBudgetItems>>,
                type |-> "warning"]>>

\* part_002 lines 56-81: setBudgetInsights(insights)
Summarize ==
    /\ iPc # "idle"
    /\ iDashboard = NotSummarized
    /\ iDashboard' = [done |-> TRUE,
                      insights |-> DashboardOverall(iArray) \o DashboardOverBudget(iArray)]
    /\ UNCHANGED <<iGiven, iArray, iFirst, iSecond, iPc, avars, pvars, now, quota,
                   phase, tvars, bvars>>

----------------------------------------------------------------------------
\* Aggregation: inputs and actions

MaxAggLen == 2      \* the transaction and budget lists passed in have up to MaxAggLen entries

AggTransactions ==
    [amount : {-4, 3}, date : {<<1, 1>>, <<1, 31>>, <<2, 1>>}, category : {"Food"}]
    \cup {[amount |-> -2, date |-> <<1, 15>>],
          [amount |-> -2, date |-> InvalidDate, category |-> "Rent"],
          [amount |-> 3, category |-> "Rent"]}

AggBudgets ==
    [month : {1, 2}, category : {"Food", "Fun"}, amount : {5}]
    \cup {[month |-> 1, category |-> "Rent", amount |-> 0]}

AggMonths == {NoMonth, 1, 2}

\* UTC-5, UTC and UTC+5
Offsets == {-5, 0, 5}

SeqsUpTo(S, n) == UNION {[1..k -> S] : k \in 0..n}

\* const comparison = compareBudgetWithActual(transactions, budgets, month)
Compare ==
    /\ aPc = "input"
    /\ aComparison' = CompareBudgetWithActual(aTransactions, aBudgets, aMonth, aOffset)
    /\ aPc' = "compared"
    /\ UNCHANGED <<aTransactions, aBudgets, aMonth, aOffset, aGrouped, aMonthly,
                   now, quota, phase, tvars, bvars, ivars, pvars>>

\* const monthlyData = groupTransactionsByMonth(transactions)
Group ==
    /\ aPc = "input"
    /\ aGrouped' = GroupTransactionsByMonth(aTransactions, aOffset)
    /\ aPc' = "grouped"
    /\ UNCHANGED <<aTransactions, aBudgets, aMonth, aOffset, aComparison, aMonthly,
                   now, quota, phase, tvars, bvars, ivars, pvars>>

\* getTransactionsForMonth(transactions, month)
ForMonth ==
    /\ aPc = "input"
    /\ aMonthly' = GetTransactionsForMonth(aTransactions, aMonth, aOffset)
    /\ aPc' = "filtered"
    /\ UNCHANGED <<aTransactions, aBudgets, aMonth, aOffset, aComparison, aGrouped,
                   now, quota, phase, tvars, bvars, ivars, pvars>>

\* the clock advances
Tick ==
    /\ now < MaxTime
    /\ now' = now + 1
    /\ UNCHANGED <<avars, ivars, pvars, quota, phase, tvars, bvars>>

----------------------------------------------------------------------------
\* the state after construction, over the given localStorage
StoreInit(txnStorage, budgetStorage, q) ==
    /\ now = 1
    /\ quota = q
    /\ phase = "constructed"
    /\ transactions = <<>>
    /\ tIsLoading = TRUE
    /\ tError = NoError
    /\ tQueue = <<>>
    /\ tPending = [loading |-> NoUpdate, error |-> NoUpdate]
    /\ tStorage = txnStorage
    /\ tCalls = <<>>
    /\ tWrites = 0
    /\ tFirstWrite = [done |-> FALSE]
    /\ tInitial = tStorage
    /\ tRef = [on |-> FALSE]
    /\ budgets = <<>>
    /\ bIsLoading = TRUE
    /\ bError = NoError
    /\ bQueue = <<>>
    /\ bPending = [loading |-> NoUpdate, error |-> NoUpdate]
    /\ bStorage = budgetStorage
    /\ bCalls = <<>>
    /\ bWrites = 0
    /\ bFirstWrite = [done |-> FALSE]
    /\ bInitial = bStorage

\* no call of the aggregation functions is being followed
AggIdle ==
    /\ aTransactions = <<>>
    /\ aBudgets = <<>>
    /\ aMonth = NoMonth
    /\ aOffset = 0
    /\ aComparison = <<>>
    /\ aGrouped = <<>>
    /\ aMonthly = <<>>
    /\ aPc = "idle"

\* no page is being followed
PageIdle ==
    /\ page = NoPage
    /\ tTimer = FALSE
    /\ bTimer = FALSE
    /\ editing = NoEditing
    /\ awaited = 0
    /\ feedback = "none"

\* no call of generateInsights is being followed
InsightIdle ==
    /\ iGiven = <<>>
    /\ iArray = <<>>
    /\ iFirst = <<>>
    /\ iSecond = <<>>
    /\ iPc = "idle"
    /\ iDashboard = NotSummarized

Init ==
    /\ \E txnStorage \in TxnStorages, budgetStorage \in BudgetStorages, q \in Quotas :
          StoreInit(txnStorage, budgetStorage, q)
    /\ AggIdle
    /\ InsightIdle
    /\ PageIdle

Next ==
    \/ Mount
    \/ Render
    \/ \E d \in Drafts, r \in 0..(MaxRand - 1) : AddTransaction(d, r)
    \/ \E id \in TxnIdArgs, p \in Patches, e \in BOOLEAN : UpdateTransaction(id, p, e)
    \/ \E id \in TxnIdArgs, e \in BOOLEAN : DeleteTransaction(id, e)
    \/ \E b \in BudgetArgs, r \in 0..(MaxRand - 1) : AddOrUpdateBudget(b, r)
    \/ \E id \in BudgetIdArgs, e \in BOOLEAN : DeleteBudget(id, e)
    \/ Tick

Spec == Init /\ [][Next]_vars

\* The budget store on its own, over a storage of three budgets.
BudgetInit ==
    /\ StoreInit(Missing, ThreeBudgets, 100)
    /\ AggIdle
    /\ InsightIdle
    /\ PageIdle

BudgetNext ==
    \/ Mount
    \/ Render
    \/ \E budget \in {b \in BudgetArgs : b.category = "Fun" /\ b.amount = 6} :
          AddOrUpdateBudget(budget, 0)
    \/ \E id \in BudgetIdArgs, eager \in BOOLEAN : DeleteBudget(id, eager)

BudgetSpec == BudgetInit /\ [][BudgetNext]_vars

\* The transaction store on its own; the patches of updateTransaction may
\* also carry a createdAt of the caller's choosing.
TxnPatches == Patches \cup {[createdAt |-> 9]}

TxnInit ==
    /\ \E txnStorage \in TxnStorages : StoreInit(txnStorage, Missing, 100)
    /\ AggIdle
    /\ InsightIdle
    /\ PageIdle

TxnNext ==
    \/ Mount
    \/ Render
    \/ \E d \in Drafts, r \in 0..(MaxRand - 1) : AddTransaction(d, r)
    \/ \E id \in TxnIdArgs, p \in TxnPatches, e \in BOOLEAN : UpdateTransaction(id, p, e)
    \/ \E id \in TxnIdArgs, e \in BOOLEAN : DeleteTransaction(id, e)
    \/ Tick

TxnSpec == TxnInit /\ [][TxnNext]_vars

\* The initial load of both stores over every record, the texts of values
\* that are no arrays among them.
NonArrayTexts == {[kind |-> "value", value |-> v] : v \in NonArrays}

LoadInit ==
    /\ \E txnStorage \in TxnStorages \cup NonArrayTexts,
          budgetStorage \in BudgetStorages \cup NonArrayTexts, q \in Quotas :
          StoreInit(txnStorage, budgetStorage, q)
    /\ AggIdle
    /\ InsightIdle
    /\ PageIdle

LoadNext ==
    \/ Mount
    \/ Render

LoadSpec == LoadInit /\ [][LoadNext]_vars

\* A session on one of the pages, with the timers of its effects.
ErrorInit ==
    /\ \E txnStorage \in TxnStorages, budgetStorage \in BudgetStorages, q \in Quotas :
          StoreInit(txnStorage, budgetStorage, q)
    /\ AggIdle
    /\ InsightIdle
    /\ page \in Pages
    /\ tTimer = FALSE
    /\ bTimer = FALSE
    /\ editing = NoEditing
    /\ awaited = 0
    /\ feedback = "none"

ErrorNext ==
    \/ Mount
    \/ Render
    \/ \E d \in Drafts : AddTransaction(d, 0)
    \/ \E b \in BudgetArgs : AddOrUpdateBudget(b, 0)
    \/ TxnTimerFires
    \/ BudgetTimerFires
    \/ \E p \in Pages : Navigate(p)

ErrorSpec == ErrorInit /\ [][ErrorNext]_vars

\* A session on a page with the transaction form, over a stored record.
FormInit ==
    /\ StoreInit(Stringify(<<StoredT1, StoredT2>>), Missing, 100)
    /\ AggIdle
    /\ InsightIdle
    /\ page \in HomePages
    /\ tTimer = FALSE
    /\ bTimer = FALSE
    /\ editing = NoEditing
    /\ awaited = 0
    /\ feedback = "none"

FormNext ==
    \/ Mount
    \/ Render
    \/ \E i \in 1..Len(transactions) : EditTransaction(transactions[i])
    \/ \E f \in FormData, e \in BOOLEAN : SubmitEdit(f, e)
    \/ FormContinues
    \/ \E id \in TxnIdArgs, e \in BOOLEAN : DeleteTransaction(id, e)

FormSpec == FormInit /\ [][FormNext]_vars

\* The persistence of both stores: the storage a session starts from may
\* also hold the empty text.
PersistStorages == {Empty}

PersistInit ==
    /\ \E txnStorage \in TxnStorages \cup PersistStorages,
          budgetStorage \in BudgetStorages \cup PersistStorages, q \in Quotas :
          StoreInit(txnStorage, budgetStorage, q)
    /\ AggIdle
    /\ InsightIdle
    /\ PageIdle

PersistNext ==
    \/ Mount
    \/ Render
    \/ \E d \in Drafts : AddTransaction(d, 0)
    \/ \E id \in TxnIdArgs, e \in BOOLEAN : DeleteTransaction(id, e)
    \/ \E b \in BudgetArgs : AddOrUpdateBudget(b, 0)
    \/ \E id \in BudgetIdArgs, e \in BOOLEAN : DeleteBudget(id, e)

PersistSpec == PersistInit /\ [][PersistNext]_vars

\* The aggregation functions on their own: the arguments are drawn at the
\* start, the stores stay as constructed over an empty storage.
AggInit ==
    /\ StoreInit(Missing, Missing, 100)
    /\ aTransactions \in SeqsUpTo(AggTransactions, MaxAggLen)
    /\ aBudgets \in SeqsUpTo(AggBudgets, MaxAggLen)
    /\ aMonth \in AggMonths
    /\ aOffset \in Offsets
    /\ aComparison = <<>>
    /\ aGrouped = <<>>
    /\ aMonthly = <<>>
    /\ aPc = "input"
    /\ InsightIdle
    /\ PageIdle

AggNext == Compare \/ Group \/ ForMonth

AggSpec == AggInit /\ [][AggNext]_vars

\* generateInsights on its own: the comparison is drawn at the start
InsightInit ==
    /\ StoreInit(Missing, Missing, 100)
    /\ AggIdle
    /\ iGiven \in SeqsUpTo(ComparisonRows, MaxRows)
    /\ iArray = iGiven
    /\ iFirst = <<>>
    /\ iSecond = <<>>
    /\ iPc = "input"
    /\ iDashboard = NotSummarized
    /\ PageIdle

InsightNext == Generate \/ GenerateAgain

InsightSpec == InsightInit /\ [][InsightNext]_vars

\* The dashboard's summary and generateInsights on the same comparison; the
\* amounts include totals that differ by less than half a percent.
SummaryRows ==
    {[category |-> c, budgeted |-> b, actual |-> a, difference |-> b - a] :
        c \in {"Food", "Fun"}, b \in {0, 5, 400}, a \in {0, 3, 7, 401}}

SummaryInit ==
    /\ StoreInit(Missing, Missing, 100)
    /\ AggIdle
    /\ iGiven \in SeqsUpTo(SummaryRows, MaxRows)
    /\ iArray = iGiven
    /\ iFirst = <<>>
    /\ iSecond = <<>>
    /\ iPc = "input"
    /\ iDashboard = NotSummarized
    /\ PageIdle

SummaryNext == Generate \/ Summarize

SummarySpec == SummaryInit /\ [][SummaryNext]_vars

----------------------------------------------------------------------------
\* Claims about the stores

Entries(list) == {list[i] : i \in 1..Len(list)}

\* the budgets of a list that are for the pair of budget
ForPair(list, budget) ==
    {i \in 1..Len(list) : IsObject(list[i]) /\ SamePair(list[i], budget)}

\* every call of the budget store so far was made on a loaded store
BudgetCallsOnLoaded == \A k \in 1..Len(bCalls) : ~bCalls[k].loading

\* C1: in every reachable state of a budget store whose calls were made after
\* the load, the budget list holds at most one Budget per (month, category)
\* pair.
C1_AtMostOnePerPair ==
    BudgetCallsOnLoaded =>
    \A i, j \in 1..Len(budgets) :
        (i < j /\ IsObject(budgets[i]) /\ IsObject(budgets[j])
               /\ Has(budgets[i], "month") /\ Has(budgets[i], "category"))
            => ~SamePair(budgets[j], budgets[i])

\* the first write holds every loaded entry that no call has named
TxnFirstWriteCarriesLoaded ==
    /\ (tFirstWrite.done /\ tInitial.kind = "json") =>
          \A e \in Entries(tInitial.val) :
              (\A k \in 1..Len(tCalls) :
                    tCalls[k].op \in {"update", "delete"} => tCalls[k].id # e.id)
                 => e \in Entries(tFirstWrite.list)
    /\ (tCalls = <<>> /\ tInitial.kind = "json") => tStorage = tInitial

BudgetFirstWriteCarriesLoaded ==
    /\ (bFirstWrite.done /\ bInitial.kind = "json") =>
          \A e \in Entries(bInitial.val) :
              (\A k \in 1..Len(bCalls) :
                    bCalls[k].op = "delete" => bCalls[k].id # e.id)
                 => e \in Entries(bFirstWrite.list)
    /\ (bCalls = <<>> /\ bInitial.kind = "json") => bStorage = bInitial

\* C2: in both stores no setItem call is made while the loading flag is
\* true, the loading flag never goes back from false to true, and the first
\* write carries the loaded collection: a valid persisted record is not
\* overwritten with the empty initial sequence.
C2_LoadGatesFirstWrite ==
    [][ /\ tWrites' # tWrites => ~tIsLoading'
        /\ bWrites' # bWrites => ~bIsLoading'
        /\ ~tIsLoading => ~tIsLoading'
        /\ ~bIsLoading => ~bIsLoading'
        /\ TxnFirstWriteCarriesLoaded'
        /\ BudgetFirstWriteCarriesLoaded' ]_vars

\* both stores loaded a non-empty record and have written it back since, with
\* a call made in between
C2_Witness ==
    /\ tFirstWrite.done /\ tInitial.kind = "json" /\ ~tIsLoading
    /\ bFirstWrite.done /\ bInitial.kind = "json" /\ ~bIsLoading
    /\ Len(tFirstWrite.list) > Len(tInitial.val)
    /\ Len(bFirstWrite.list) > 0

\* what it is for the committed list to reflect a settled call
Reflected(call) ==
    CASE call.op = "add" ->
            /\ call.res.val \in Entries(transactions)
            /\ GetStats(transactions).totalTransactions >= 1
      [] call.op = "update" ->
            call.res.st = "resolved" =>
                (call.res.val = Null \/ call.res.val \in Entries(transactions))
      [] call.op = "delete" ->
            (call.res.st = "resolved" /\ call.present) =>
                ~\E t \in Entries(transactions) : HasId(t, call.id)

\* C3: once the promise of the latest add, update or remove of a loaded
\* store has resolved, the transaction list and getStats() of the current
\* context value reflect the mutation.
C3_ReadAfterWrite ==
    (~tIsLoading /\ tCalls # <<>> /\ tCalls[Len(tCalls)].res.st # "pending")
        => Reflected(tCalls[Len(tCalls)])

\* C4: once every requested update has been applied, the list of a loaded
\* transaction store is the list of the reference model, in which add
\* prepends, update merges the patch into the matching entry in place and
\* remove deletes the entry with the given id.
C4_MatchesReference ==
    (tRef.on /\ tQueue = <<>>)
        => WithoutUpdatedAt(transactions) = WithoutUpdatedAt(tRef.list)

\* an add and an update or remove of a present id have been applied to a
\* loaded store
C4_Witness ==
    /\ tRef.on /\ tQueue = <<>> /\ Len(tCalls) = 2
    /\ \E k \in 1..2 : tCalls[k].op = "add"
    /\ \E k \in 1..2 : tCalls[k].op \in {"update", "delete"} /\ tCalls[k].present
    /\ Len(transactions) >= 2

\* C5: update of an id that is not in the list rejects and leaves the list
\* unchanged; update of an id that is in the list resolves with the updated
\* Transaction, whose updatedAt is the time of the update.
C5_UpdateContract ==
    \A k \in 1..Len(tCalls) :
        (tCalls[k].op = "update" /\ tCalls[k].res.st # "pending") =>
            IF tCalls[k].present
            THEN /\ tCalls[k].res.st = "resolved"
                 /\ tCalls[k].res.val # Null
                 /\ HasId(tCalls[k].res.val, tCalls[k].id)
                 /\ tCalls[k].res.val.updatedAt = tCalls[k].at
            ELSE /\ tCalls[k].res.st = "rejected"
                 /\ tCalls[k].unchanged

DeleteContract(call) ==
    (call.op = "delete" /\ call.res.st # "pending") =>
        /\ call.res.st = "resolved"
        /\ call.res.val = call.present
        /\ ~call.present => call.unchanged
        /\ call.present => ~call.remains

\* C6: in both stores remove of an id that is not present resolves false,
\* does not reject and returns the list it was given; remove of a present id
\* resolves true and leaves no entry with that id; no remove is left
\* unsettled by a render that throws.
C6_RemoveContract ==
    /\ \A k \in 1..Len(tCalls) : DeleteContract(tCalls[k])
    /\ \A k \in 1..Len(bCalls) : DeleteContract(bCalls[k])
    /\ phase = "crashed" =>
          \A k \in 1..Len(bCalls) :
              bCalls[k].op = "delete" => bCalls[k].res.st # "pending"

\* the sum of the amounts of one sign, as absolute values
RECURSIVE TotalOfSign(_, _)
TotalOfSign(list, sign) ==
    IF list = <<>> THEN 0
    ELSE TotalOfSign(Tail(list), sign)
         + (IF Head(list).amount * sign > 0 THEN Head(list).amount * sign ELSE 0)

\* C7: getStats() of every reachable list has income >= 0, expenses >= 0,
\* balance = income - expenses and a count equal to the list length, income
\* being the sum of the positive amounts and expenses the sum of the absolute
\* values of the negative ones.
C7_Statistics ==
    LET stats == GetStats(transactions)
    IN  /\ stats.income >= 0
        /\ stats.expenses >= 0
        /\ stats.balance = stats.income - stats.expenses
        /\ stats.totalTransactions = Len(transactions)
        /\ stats.income = TotalOfSign(transactions, 1)
        /\ stats.expenses = TotalOfSign(transactions, -1)

\* a list with income and expenses that calls have changed
C7_Witness ==
    /\ Len(transactions) >= 3
    /\ GetStats(transactions).income > 0
    /\ GetStats(transactions).expenses > 0
    /\ \E k \in 1..Len(tCalls) : tCalls[k].op = "update" /\ tCalls[k].present

\* C8: after repeated calls of upsert with the same (month, category,
\* amount), all applied, exactly one Budget exists for the pair, every call
\* resolved with the same id, and updatedAt did not decrease from one call to
\* the next.
C8_UpsertIdempotent ==
    (/\ BudgetCallsOnLoaded /\ bQueue = <<>> /\ Len(bCalls) >= 2
     /\ \A k \in 1..Len(bCalls) :
            bCalls[k].op = "upsert" /\ bCalls[k].budget = bCalls[1].budget)
        => /\ Cardinality(ForPair(budgets, bCalls[1].budget)) = 1
           /\ \A k \in 2..Len(bCalls) :
                 /\ bCalls[k].res.val.id = bCalls[1].res.val.id
                 /\ bCalls[k].res.val.updatedAt >= bCalls[k - 1].res.val.updatedAt

\* C9: once applied, an upsert that no other upsert preceded has left one
\* Budget for its pair, the one its promise resolved with (which keeps the id
\* and createdAt of the Budget the store held for the pair, if it held one).
C9_UpsertResult ==
    (/\ BudgetCallsOnLoaded /\ bQueue = <<>> /\ bCalls # <<>>
     /\ bCalls[Len(bCalls)].op = "upsert"
     /\ \A k \in 1..(Len(bCalls) - 1) : bCalls[k].op # "upsert")
        => LET call == bCalls[Len(bCalls)]
           IN  /\ call.res.st = "resolved"
               /\ \A i \in ForPair(budgets, call.budget) : budgets[i] = call.res.val
               /\ ForPair(budgets, call.budget) # {}

----------------------------------------------------------------------------
\* Claims about the aggregation functions

\* the categories with a budget in the month
BudgetCategories(budgetList, month) ==
    {b.category : b \in {x \in Range(budgetList) : x.month = month}}

\* the categories with an expense whose stored date is a day of the month
ExpenseCategories(list, month) ==
    {CategoryOrOther(t) : t \in {x \in Range(list) :
        /\ x.amount < 0
        /\ Has(x, "date") /\ x.date # InvalidDate /\ x.date[1] = month}}

\* C10: the categories of compareBudgetWithActual's output are the categories
\* with a budget in the month together with those with an expense transaction
\* in the month, each once; a category without a budget has budgeted = 0, one
\* without spending has actual = 0, and difference = budgeted - actual in
\* every row.
C10_ComparisonCategories ==
    (aPc = "compared" /\ aMonth # NoMonth) =>
        LET rows == aComparison
            budgetCats == BudgetCategories(aBudgets, aMonth)
            expenseCats == ExpenseCategories(aTransactions, aMonth)
        IN  /\ {rows[i].category : i \in 1..Len(rows)} = budgetCats \cup expenseCats
            /\ \A i, j \in 1..Len(rows) : rows[i].category = rows[j].category => i = j
            /\ \A i \in 1..Len(rows) :
                  /\ rows[i].category \notin budgetCats => rows[i].budgeted = 0
                  /\ rows[i].category \notin expenseCats => rows[i].actual = 0
                  /\ rows[i].difference = rows[i].budgeted - rows[i].actual

\* the month of the stored date of a transaction, <<2025, 1>> for a date
\* "2025-01-..."
HasStoredDate(t) == Has(t, "date") /\ t.date # InvalidDate

StoredMonth(t) == <<2025, t.date[1]>>

\* the signed sum of the amounts of the transactions whose stored date is a
\* day of the month
TotalOfMonth(list, key) ==
    SumAmounts(Filter(list, LAMBDA t : HasStoredDate(t) /\ StoredMonth(t) = key))

\* C11: groupTransactionsByMonth returns one bucket per month key, in
\* strictly ascending order of the key; transactions with a missing or
\* unparseable date are left out, and the total of each bucket is the signed
\* sum of the amounts of the transactions of its month.
C11_GroupedByMonth ==
    aPc = "grouped" =>
        /\ \A i, j \in 1..Len(aGrouped) :
              i < j => KeyBefore(aGrouped[i], aGrouped[j])
        /\ {aGrouped[i].key : i \in 1..Len(aGrouped)}
              = {StoredMonth(t) : t \in {x \in Range(aTransactions) : HasStoredDate(x)}}
        /\ \A i \in 1..Len(aGrouped) :
              aGrouped[i].total = TotalOfMonth(aTransactions, aGrouped[i].key)

\* C12: a transaction dated YYYY-MM-DD is bucketed by groupTransactionsByMonth
\* under the key YYYY-MM, and getTransactionsForMonth(transactions, month)
\* returns it exactly when month is YYYY-MM, whatever the day of the month
\* and the time zone of the host.
C12_MonthAttribution ==
    /\ aPc = "grouped" =>
          \A t \in Range(aTransactions) :
              HasStoredDate(t) =>
                  \E i \in 1..Len(aGrouped) :
                      /\ aGrouped[i].key = StoredMonth(t)
                      /\ aGrouped[i].total = TotalOfMonth(aTransactions, StoredMonth(t))
    /\ (aPc = "filtered" /\ aMonth # NoMonth) =>
          aMonthly = Filter(aTransactions,
                            LAMBDA t : HasStoredDate(t) /\ StoredMonth(t) = <<2025, aMonth>>)

----------------------------------------------------------------------------
\* Claims about generateInsights

\* the kind of an insight, from the template of its text, and its place in
\* the priority order
KindOf(insight) ==
    CASE insight.text[1] = "overall" -> 1
      [] insight.text[1] = "over budget" -> 2
      [] insight.text[1] = "saved" -> 3
      [] insight.text[1] = "top" -> 4
      [] insight.text[1] = "nothing spent" -> 5

KindsOf(insights) == {KindOf(insights[i]) : i \in 1..Len(insights)}

IsOver(row) == row.budgeted > 0 /\ row.actual > row.budgeted

IsUnder(row) == row.budgeted > 0 /\ row.actual < row.budgeted

\* the kinds whose condition holds for the rows
DueKinds(rows) ==
    {k \in 1..5 :
        CASE k = 1 -> TotalBudgeted(rows) > 0
          [] k = 2 -> \E i \in 1..Len(rows) : IsOver(rows[i])
          [] k = 3 -> \E i \in 1..Len(rows) : IsUnder(rows[i])
          [] k = 4 -> \E i \in 1..Len(rows) : rows[i].actual > 0
          [] k = 5 -> \E i \in 1..Len(rows) :
                          rows[i].budgeted > 0 /\ rows[i].actual = 0}

\* C13: generateInsights emits its insights in the order overall
\* utilization, worst over-budget category, best under-budget category, top
\* spending category, unused budgets; each kind at most once and exactly when
\* its condition holds; an empty comparison yields no insight.
C13_PriorityOrder ==
    iPc = "once" =>
        /\ \A i, j \in 1..Len(iFirst) : i < j => KindOf(iFirst[i]) < KindOf(iFirst[j])
        /\ KindsOf(iFirst) = DueKinds(iGiven)
        /\ iGiven = <<>> => iFirst = <<>>

\* a comparison for which all five kinds were emitted
C13_Witness == iPc = "once" /\ Len(iFirst) = 5

\* C14: after generateInsights returns, the comparison array holds the same
\* rows in the same order as before the call.
C14_ArgumentUnchanged == iPc \in {"once", "twice"} => iArray = iGiven

\* the kind, the category named (if one is) and the severity of each insight
Summary(insights) ==
    [i \in 1..Len(insights) |->
        <<KindOf(insights[i]),
          IF KindOf(insights[i]) \in {2, 3, 4} THEN insights[i].text[2] ELSE "",
          insights[i].type>>]

\* C15: two calls of generateInsights in succession with the same
\* comparison array return the same sequence of insights: the same kinds,
\* the same categories named and the same severities.
C15_Deterministic == iPc = "twice" => Summary(iSecond) = Summary(iFirst)

\* x / y rounded to the nearest integer, a half going up, for x >= 0, y > 0
RoundedRatio(x, y) == (2 * x + y) \div (2 * y)

\* the first row, in the order given, whose overage no over-budget row exceeds
WorstOver(rows) ==
    LET over == {i \in 1..Len(rows) : IsOver(rows[i])}
        worst == {i \in over : \A j \in over :
                     rows[j].actual - rows[j].budgeted <= rows[i].actual - rows[i].budgeted}
    IN  rows[CHOOSE i \in worst : \A j \in worst : i <= j]

\* C16: the worst-over-budget insight is emitted exactly when some row has
\* budgeted > 0 and actual > budgeted; it names the first row, in input order,
\* of maximal overage, reports the overage and round(100 * overage / budgeted)
\* percent, and has severity warning.
C16_WorstOverBudget ==
    iPc = "once" =>
        LET emitted == {i \in 1..Len(iFirst) : KindOf(iFirst[i]) = 2}
            row == WorstOver(iGiven)
            overage == row.actual - row.budgeted
        IN  /\ (emitted # {}) = (\E i \in 1..Len(iGiven) : IsOver(iGiven[i]))
            /\ \A i \in emitted :
                  /\ iFirst[i].type = "warning"
                  /\ iFirst[i].text[2] = row.category
                  /\ iFirst[i].text[3] = FormatCurrency(overage)
                  /\ iFirst[i].text[4] = Integer(RoundedRatio(100 * overage, row.budgeted))

\* the percentage an insight reports, if it reports one
PercentagesOf(insights) ==
    {insights[i].text[4] : i \in {j \in 1..Len(insights) : KindOf(insights[j]) # 5}}

\* C17: for a comparison of non-negative values no insight reports a
\* percentage computed with a zero denominator: the overall insight is
\* emitted only when total budgeted > 0, the top-category insight only when
\* total actual > 0, and every percentage reported is a finite number.
C17_NoZeroDenominator ==
    \A insights \in {iFirst, iSecond} :
        /\ PercentagesOf(insights) \cap {NaN, Infinity} = {}
        /\ 1 \in KindsOf(insights) => TotalBudgeted(iGiven) > 0
        /\ 4 \in KindsOf(insights) => TotalActual(iGiven) > 0

\* a comparison with spending and nothing budgeted: the overall insight was
\* skipped and the top category reported
C17_Witness ==
    /\ iPc = "once"
    /\ TotalBudgeted(iGiven) = 0 /\ TotalActual(iGiven) > 0
    /\ KindsOf(iFirst) = {4}

----------------------------------------------------------------------------
\* Claims about persistence

\* the effects of the first render have run and the render they asked for
\* has been committed
TxnLoadEnded == phase # "constructed" /\ tPending.loading = NoUpdate
BudgetLoadEnded == phase # "constructed" /\ bPending.loading = NoUpdate

TxnWriteRejected ==
    tWrites' # tWrites /\ ~SetItemAccepted(Stringify(transactions'), bStorage')
BudgetWriteRejected ==
    bWrites' # bWrites /\ ~SetItemAccepted(Stringify(budgets'), tStorage)

\* a step that commits a render
Committed ==
    /\ phase = "mounted"
    /\ Len(tCalls') = Len(tCalls) /\ Len(bCalls') = Len(bCalls)
    /\ <<tQueue, tPending, bQueue, bPending>>' # <<tQueue, tPending, bQueue, bPending>>

\* the step leaves in the collection every entry that a queued call added
\* and that no call queued after it removes
TxnAddsApplied ==
    \A i \in 1..Len(tQueue) :
        (/\ tQueue[i].kind = "add"
         /\ \A j \in (i + 1)..Len(tQueue) :
                tQueue[j].kind = "delete" => tQueue[j].id # tQueue[i].txn.id)
        => tQueue[i].txn.id \in IdsOf(transactions')
BudgetAddsApplied ==
    \A i \in 1..Len(bQueue) :
        (/\ bQueue[i].kind = "append"
         /\ \A j \in (i + 1)..Len(bQueue) :
                bQueue[j].kind = "delete" => bQueue[j].id # bQueue[i].budget.id)
        => bQueue[i].budget.id \in IdsOf(budgets')

\* C19: in both stores, when setItem rejects a write, the error slot is set
\* to the save message (requested by the step, committed by the next render),
\* the record in storage and the in-memory collection are left as they were,
\* no exception escapes (the tree stays mounted), and the renders after the
\* failure still apply the queued mutations.
C19_SaveFailsSoft ==
    [][ /\ TxnWriteRejected =>
             /\ tPending'.error = SaveError /\ tStorage' = tStorage
             /\ phase' = "mounted" /\ TxnAddsApplied
        /\ BudgetWriteRejected =>
             /\ bPending'.error = SaveError /\ bStorage' = bStorage
             /\ phase' = "mounted" /\ BudgetAddsApplied
        /\ (tPending.error = SaveError /\ Committed) =>
             /\ tError' = SaveError
             /\ tQueue = <<>> => transactions' = transactions
        /\ (bPending.error = SaveError /\ Committed) =>
             /\ bError' = SaveError
             /\ bQueue = <<>> => budgets' = budgets
        /\ (tError = SaveError /\ Committed) =>
             phase' = "mounted" /\ TxnAddsApplied
        /\ (bError = SaveError /\ Committed) =>
             phase' = "mounted" /\ BudgetAddsApplied ]_vars

\* a write of the loaded transactions and one more was rejected, the error
\* slot holds the save message, and a transaction added after that is in the
\* collection, while the storage holds the record of the start
C19_Witness ==
    /\ tError = SaveError /\ tInitial.kind = "json" /\ tStorage = tInitial
    /\ tQueue = <<>> /\ Len(transactions) = Len(tInitial.val) + 2
    /\ \A k \in 1..Len(tCalls) :
          tCalls[k].op = "add" /\ tCalls[k].id \in IdsOf(transactions)

\* C20: in both stores, once loading is complete, a step that changes the
\* in-memory collection leaves under the store's key the serialization of
\* the full new collection when setItem accepts it, so that a loaded store
\* whose writes are all accepted always has its collection on record; and the
\* record under a store's key changes only in a step in which that store
\* itself called setItem.
C20_PersistsEveryMutation ==
    [][ /\ (/\ ~tIsLoading' /\ transactions' # transactions
            /\ SetItemAccepted(Stringify(transactions'), bStorage'))
           => tStorage' = Stringify(transactions')
        /\ (/\ ~bIsLoading' /\ budgets' # budgets
            /\ SetItemAccepted(Stringify(budgets'), tStorage))
           => bStorage' = Stringify(budgets')
        /\ (quota = 100 /\ ~tIsLoading') => tStorage' = Stringify(transactions')
        /\ (quota = 100 /\ ~bIsLoading') => bStorage' = Stringify(budgets')
        /\ tStorage' # tStorage => tWrites' # tWrites
        /\ bStorage' # bStorage => bWrites' # bWrites
        /\ (tWrites' # tWrites /\ bWrites' = bWrites) => bStorage' = bStorage
        /\ (bWrites' # bWrites /\ tWrites' = tWrites) => tStorage' = tStorage ]_vars

\* two budgets were added to the loaded ones and are on record, with the
\* record of the transactions as it was written after the load
C20_Witness ==
    /\ ~bIsLoading /\ bQueue = <<>> /\ bInitial.kind = "json"
    /\ Len(budgets) = Len(bInitial.val) + 2
    /\ bStorage = Stringify(budgets)
    /\ ~tIsLoading /\ tInitial.kind = "json" /\ tStorage = tInitial /\ tWrites = 1

----------------------------------------------------------------------------
\* Claims about the identity and the timestamps of transactions

\* C21: no two transactions of the list have the same id.
C21_UniqueIds ==
    \A i, j \in 1..Len(transactions) :
        i # j => transactions[i].id # transactions[j].id

\* the ids of a list, in its order
IdSeq(list) == [i \in 1..Len(list) |-> list[i].id]

\* C22: update never changes the id of a transaction of the list (after
\* calls of update only, the loaded store holds the loaded ids in the loaded
\* order), and the transaction it resolves with has the id passed in.
C22_IdImmutable ==
    /\ (/\ ~tIsLoading /\ tInitial.kind = "json"
        /\ \A k \in 1..Len(tCalls) : tCalls[k].op = "update")
       => IdSeq(transactions) = IdSeq(tInitial.val)
    /\ \A k \in 1..Len(tCalls) :
          (tCalls[k].op = "update" /\ tCalls[k].res.st = "resolved") =>
              HasId(tCalls[k].res.val, tCalls[k].id)

\* C23: every transaction of the list has updatedAt >= createdAt.
C23_Timestamps ==
    \A i \in 1..Len(transactions) :
        transactions[i].updatedAt >= transactions[i].createdAt

----------------------------------------------------------------------------
\* Claims about the pages

\* C24: on a mounted page, an error in the error slot of either store is on
\* its way out without user action: the timer that clears it is pending, or
\* the clearing is.
C24_ErrorExpires ==
    (phase = "mounted" /\ page # NoPage) =>
        /\ tError # NoError => (tTimer \/ tPending.error = NoError)
        /\ bError # NoError => (bTimer \/ bPending.error = NoError)

\* C29: when the form is submitted for a transaction that is no longer in
\* the list, the list is left unchanged and the form does not report
\* success.
C29_StaleEditFails ==
    [][ (/\ awaited > 0 /\ awaited' = 0 /\ page' = page
         /\ ~tCalls[awaited].present)
        => /\ tCalls[awaited].unchanged
           /\ tCalls[awaited].res.st = "rejected"
           /\ feedback' # "success" ]_vars

----------------------------------------------------------------------------
\* Claims about concurrent calls

\* a Budget with its identifying fields
WellFormed(b) ==
    IsObject(b) /\ Has(b, "id") /\ Has(b, "month") /\ Has(b, "category")

\* C25: a render that applies budget updates adds no entry that lacks id,
\* month or category, and leaves identical every Budget whose pair no upsert
\* named and whose id no remove named.
C25_UpsertFrame ==
    [][ (phase' = "mounted" /\ bQueue # <<>> /\ bQueue' = <<>>) =>
          /\ \A j \in 1..Len(budgets') :
                WellFormed(budgets'[j])
                \/ \E i \in 1..Len(budgets) : budgets[i] = budgets'[j]
          /\ \A i \in 1..Len(budgets) :
                (/\ WellFormed(budgets[i])
                 /\ \A k \in 1..Len(bCalls) :
                       IF bCalls[k].op = "upsert"
                       THEN ~SamePair(budgets[i], bCalls[k].budget)
                       ELSE bCalls[k].id # budgets[i].id)
                => \E j \in 1..Len(budgets') : budgets'[j] = budgets[i] ]_vars

\* C26: once loading has completed, the list holds every transaction that
\* add resolved with while the loading flag was true, and every loaded
\* transaction, unless a later call named its id.
C26_AddDuringLoad ==
    (~tIsLoading /\ tQueue = <<>>) =>
        \A k \in 1..Len(tCalls) :
            (/\ tCalls[k].op = "add" /\ tCalls[k].loading
             /\ \A n \in 1..Len(tCalls) :
                   tCalls[n].op # "add" => tCalls[n].id # tCalls[k].id)
            => /\ \E i \in 1..Len(transactions) :
                     transactions[i] = tCalls[k].res.val
               /\ tInitial.kind = "json" =>
                     \A e \in Entries(tInitial.val) :
                         (\A n \in 1..Len(tCalls) :
                               tCalls[n].op # "add" => tCalls[n].id # e.id)
                         => e \in Entries(transactions)

----------------------------------------------------------------------------
\* Claims about the initial load

\* C27: once the initial load has completed, the collection of each store
\* is an array, whatever JSON text the record holds.
C27_CollectionIsArray ==
    /\ ~tIsLoading => IsArray(transactions)
    /\ ~bIsLoading => IsArray(budgets)

\* C28: when the initial load failed because the record does not parse, the
\* store does not write to that record as long as no mutation was called.
C28_KeepsUnparsedRecord ==
    /\ (tInitial = Corrupt /\ tCalls = <<>>) => (tWrites = 0 /\ tStorage = Corrupt)
    /\ (bInitial = Corrupt /\ bCalls = <<>>) => (bWrites = 0 /\ bStorage = Corrupt)

----------------------------------------------------------------------------
\* Claims about the dashboard

\* the insights on the total among insights
OverallOf(insights) ==
    {insights[i] : i \in {j \in 1..Len(insights) :
                              insights[j].text[1] \in {"overall", "used"}}}

\* C30: for the same comparison the dashboard's summary and generateInsights
\* agree on the overall utilization: one has the insight when the other has
\* it, the dashboard marks it 'warning' exactly when generateInsights does,
\* that is exactly when the total actual exceeds the total budgeted, and both
\* report the same rounded percentage.
C30_SameUtilization ==
    (iPc = "once" /\ iDashboard.done) =>
        /\ (OverallOf(iDashboard.insights) = {}) = (OverallOf(iFirst) = {})
        /\ \A d \in OverallOf(iDashboard.insights), g \in OverallOf(iFirst) :
              /\ (d.type = "warning") = (g.type = "warning")
              /\ (d.type = "warning") = (TotalActual(iGiven) > TotalBudgeted(iGiven))
              /\ d.text[2] = g.text[4]

====
